---------------------------- MODULE Spec2Model ----------------------------
(***************************************************************************)
(* cosmos-registrar, package node: DumpInfo and its helpers.               *)
(*                                                                         *)
(* One process runs DumpInfo any number of times.  The package-level       *)
(* variables gen, commit, netInfo and the errgroup eg live as long as the  *)
(* process; the registry directory lives on disk and outlives it.          *)
(* Goroutines are modelled by interleaving their reads and writes of the   *)
(* variables they share.                                                   *)
(***************************************************************************)
EXTENDS Integers, Sequences, FiniteSets, TLC

(***************************************************************************)
(* Bounds of the model.                                                    *)
(***************************************************************************)
MaxRuns == 2
MaxFaults == 1
MaxHeight == 1
MaxLen == 2

Range(s) == { s[i] : i \in 1..Len(s) }

NoDuplicates(s) == \A i, j \in 1..Len(s) : s[i] = s[j] => i = j

SeqsUpTo(S, n) == UNION { [1..k -> S] : k \in 0..n }

(***************************************************************************)
(* Permutations of a finite set, as sequences without repetition.          *)
(***************************************************************************)
Orderings(S) ==
  { s \in [1..Cardinality(S) -> S] : \A i, j \in 1..Cardinality(S) : s[i] = s[j] => i = j }

(***************************************************************************)
(* dedupe: every element becomes a key of a map, and the keys are          *)
(* appended to out in the map's iteration order, which Go leaves           *)
(* unspecified.  The operator is the set of slices dedupe may return.      *)
(***************************************************************************)
dedupeSkipFirst(ele) ==
  Orderings({ ele[v] : v \in 2..Len(ele) })

dedupe(ele) ==
  Orderings({ ele[v] : v \in 1..Len(ele) })

(***************************************************************************)
(* stringsFromPeers.  A listen address is its sequence of characters       *)
(* (tokens here), ":" among them; strings.Split(addr, ":") cuts it at      *)
(* every ":" and the port is the last piece.  The peer string              *)
(* "%s@%s:%s" is the triple of its three arguments.                        *)
(***************************************************************************)
RECURSIVE LastColon(_, _)
LastColon(addr, i) ==
  IF i = 0 THEN 0
  ELSE IF addr[i] = ":" THEN i
  ELSE LastColon(addr, i - 1)

LastSegment(addr) ==
  SubSeq(addr, LastColon(addr, Len(addr)) + 1, Len(addr))

PeerString(p) ==
  [id |-> p.ID, ip |-> p.RemoteIP, port |-> LastSegment(p.ListenAddr)]

stringsFromPeers(ni) ==
  [i \in 1..Len(ni) |-> PeerString(ni[i])]

(***************************************************************************)
(* JSON values of the genesis document.  A value is a scalar or an object; *)
(* an object is the sequence of its members in the order they are          *)
(* serialized in.                                                          *)
(***************************************************************************)
Scalar(s) == [kind |-> "scalar", s |-> s]
Object(m) == [kind |-> "object", members |-> m]
Member(k, v) == [key |-> k, val |-> v]

(***************************************************************************)
(* The lexicographic order of the keys used, as encoding/json sorts them.  *)
(***************************************************************************)
SortedKeys == <<"accounts", "app_state", "chain_id", "supply">>

KeyRank(k) == CHOOSE i \in 1..Len(SortedKeys) : SortedKeys[i] = k

(***************************************************************************)
(* json.Unmarshal into interface{}: an object becomes a map from its keys  *)
(* to the decoded values; of two members with one key the later wins.      *)
(***************************************************************************)
RECURSIVE Unmarshal(_)
Unmarshal(v) ==
  IF v.kind = "scalar" THEN v
  ELSE LET m == v.members
           keys == { m[i].key : i \in 1..Len(m) }
           last(k) == CHOOSE i \in 1..Len(m) :
                        /\ m[i].key = k
                        /\ \A j \in 1..Len(m) : m[j].key = k => j <= i
       IN  [kind |-> "map", map |-> [k \in keys |-> Unmarshal(m[last(k)].val)]]

(***************************************************************************)
(* The keys of a map in sorted order.                                      *)
(***************************************************************************)
SortKeys(keys) ==
  CHOOSE s \in Orderings(keys) :
    \A i, j \in 1..Len(s) : i < j => KeyRank(s[i]) < KeyRank(s[j])

RECURSIVE Flatten(_)
Flatten(ss) == IF ss = <<>> THEN <<>> ELSE Head(ss) \o Flatten(Tail(ss))

(***************************************************************************)
(* json.MarshalIndent of a generic value: the bytes (tokens here) of the   *)
(* value, a map's members in the sorted order of their keys.               *)
(***************************************************************************)
RECURSIVE MarshalIndent(_)
MarshalIndent(c) ==
  IF c.kind = "scalar" THEN <<c.s>>
  ELSE LET ks == SortKeys(DOMAIN c.map)
       IN  <<"{">>
           \o Flatten([i \in 1..Len(ks) |-> <<ks[i], ":">> \o MarshalIndent(c.map[ks[i]]) \o <<",">>])
           \o <<"}">>

(***************************************************************************)
(* json.Marshal of the document as fetched: the members in the order the   *)
(* document holds them.                                                    *)
(***************************************************************************)
RECURSIVE Marshal(_)
Marshal(v) ==
  IF v.kind = "scalar" THEN <<v.s>>
  ELSE <<"{">>
       \o Flatten([i \in 1..Len(v.members) |->
                     <<v.members[i].key, ":">> \o Marshal(v.members[i].val) \o <<",">>])
       \o <<"}">>

(***************************************************************************)
(* sha256.Sum256 printed with %x: a function of the bytes alone.           *)
(***************************************************************************)
Sum256(bytes) == [sha256 |-> bytes]

sortedGenesisUnsorted(g) ==
  [sum |-> Sum256(Marshal(g)), indented |-> Marshal(g)]

sortedGenesis(g) ==
  LET c == Unmarshal(g)
      indented == MarshalIndent(c)
  IN  [sum |-> Sum256(indented), indented |-> indented]


(***************************************************************************)
(* The inputs of a run.                                                    *)
(***************************************************************************)
base == "registry"
chainID == "chain-A"

Networks == {"chain-A", "chain-B"}
Heights == 1..MaxHeight
Hashes == {"hashA", "hashB"}

Nil == [kind |-> "nil"]

StatusResponses ==
  { [err |-> "rpc", Network |-> "", CatchingUp |-> FALSE, LatestBlockHeight |-> 0] }
  \cup [err : {"nil"}, Network : Networks, CatchingUp : BOOLEAN, LatestBlockHeight : Heights]

GenDoc1 ==
  Object(<<Member("chain_id", Scalar("chain-A")),
           Member("app_state", Object(<<Member("supply", Scalar("1")),
                                        Member("accounts", Scalar("1"))>>))>>)

GenDoc2 ==
  Object(<<Member("chain_id", Scalar("chain-A")),
           Member("app_state", Object(<<Member("accounts", Scalar("1")),
                                        Member("supply", Scalar("2"))>>))>>)

GenesisResponses == { [kind |-> "ResultGenesis", Genesis |-> g] : g \in {GenDoc1, GenDoc2} }

CommitResponses(h) == { [kind |-> "ResultCommit", Height |-> h, Hash |-> x] : x \in Hashes }

peerA == [ID |-> "a", RemoteIP |-> "1.2.3.4", ListenAddr |-> <<"tcp", ":", "//0.0.0.0", ":", "26656">>]
peerA2 == [ID |-> "a", RemoteIP |-> "1.2.3.4", ListenAddr |-> <<"0.0.0.0", ":", "26656">>]
peerB == [ID |-> "b", RemoteIP |-> "5.6.7.8", ListenAddr |-> <<"26656">>]
peerC == [ID |-> "c", RemoteIP |-> "9.9.9.9", ListenAddr |-> <<"[", ":", ":", "]", ":", "26657">>]

NetInfoResponses ==
  { [kind |-> "ResultNetInfo", Peers |-> ps] : ps \in { <<peerA, peerA2>>, <<peerB>> } }

(***************************************************************************)
(* repoDir: the paths of the registry, as path.Join builds them.           *)
(***************************************************************************)
chainPath == <<base, chainID>>
genesisPath == chainPath \o <<"genesis.json">>
genesisSumPath == chainPath \o <<"genesis.json.sum">>
lrpath == chainPath \o <<"light-roots">>
latestPath == lrpath \o <<"latest.json">>
heightPath(h) == lrpath \o <<ToString(h) \o ".json">>
binariesPath == chainPath \o <<"binaries.json">>
peersPath == chainPath \o <<"peers.json">>

pathBase(pth) == pth[Len(pth)]

Paths ==
  {genesisPath, genesisSumPath, latestPath, binariesPath, peersPath}
  \cup { heightPath(h) : h \in Heights }

(***************************************************************************)
(* What a file holds.                                                      *)
(***************************************************************************)
Absent == [kind |-> "absent"]
Truncated == [kind |-> "truncated"]

NewLightRoot(sh) == [kind |-> "LightRoot", TrustHeight |-> sh.Height, TrustHash |-> sh.Hash]

Binary == [kind |-> "Binary"]

PeersFile(list) == [kind |-> "peers", list |-> list]
GenesisFile(bytes) == [kind |-> "genesis", bytes |-> bytes]
SumFile(sum) == [kind |-> "sum", sum |-> sum]


(***************************************************************************)
(* The state.                                                              *)
(*   pc            where the goroutine running DumpInfo is                 *)
(*   stat, err     DumpInfo's locals; err is its named result, which the   *)
(*                 closures it starts assign as well                       *)
(*   gen, commit, netInfo, egErr                                           *)
(*                 the package-level variables; egErr is the err field of  *)
(*                 the errgroup eg, set by the first task that fails       *)
(*   fpc, ppc, ps  the fetch tasks, the persist tasks, and the peers       *)
(*                 task's payload                                          *)
(*   ret           what DumpInfo returned                                  *)
(*   dirs, files   the registry on disk                                    *)
(* The others record a run for the properties: the number of runs and of   *)
(* failures injected, the files when the run started, the outcome of each  *)
(* RPC call, what each task returned, the filesystem calls made, the phase *)
(* DumpInfo is in or returned from, whether an earlier run of this process *)
(* returned an error from its fetch or persist phase, whether the run      *)
(* before this one returned nil, and which tasks of the current phase have *)
(* assigned each variable the goroutines share.                            *)
(***************************************************************************)
VARIABLES pc, stat, err, gen, commit, netInfo, egErr, fpc, ppc, ps, ret,
          dirs, files,
          runs, faults, files0, rpcOut, fret, pret, fsLog, stage, failedBefore, prevOk,
          writers,
          P, D, merged, merged2, mstage,
          docA, docB, outA, outB, cstage

procVars == <<gen, commit, netInfo, egErr>>
diskVars == <<dirs, files>>
runVars == <<pc, stat, err, fpc, ppc, ps, ret, files0, rpcOut, fret, pret, fsLog, stage, writers>>
mergeVars == <<P, D, merged, merged2, mstage>>
canonVars == <<docA, docB, outA, outB, cstage>>
vars == <<procVars, diskVars, runVars, runs, faults, failedBefore, prevOk, mergeVars, canonVars>>

FetchTasks == {"genesis", "commit", "net-info"}
UpdateTasks == {"latest", "height", "binaries"}
PersistTasks == UpdateTasks \cup {"genesis", "peers"}

NoFetch == [t \in FetchTasks |-> "none"]
NoPersist == [t \in PersistTasks |-> "none"]

(***************************************************************************)
(* The variables that several goroutines of DumpInfo can see: the three    *)
(* package-level results and DumpInfo's named result err.  writers[v] is   *)
(* the set of tasks of the current phase that have assigned v.             *)
(***************************************************************************)
SharedVars == {"gen", "commit", "netInfo", "err"}

NoWriters == [v \in SharedVars |-> {}]

Assigns(t, vs) == [v \in SharedVars |-> IF v \in vs THEN writers[v] \cup {t} ELSE writers[v]]

ResultVar(t) == IF t = "genesis" THEN "gen" ELSE IF t = "commit" THEN "commit" ELSE "netInfo"

(***************************************************************************)
(* A process that has not called DumpInfo, on an empty registry.           *)
(***************************************************************************)
FreshRun ==
  /\ pc = "idle" /\ stat = Nil /\ err = "nil"
  /\ fpc = NoFetch /\ ppc = NoPersist /\ ps = <<>> /\ ret = "none"
  /\ rpcOut = NoFetch /\ fret = NoFetch /\ pret = NoPersist
  /\ fsLog = {} /\ stage = "idle" /\ writers = NoWriters

FreshProcess ==
  /\ gen = Nil /\ commit = Nil /\ netInfo = Nil /\ egErr = "nil"
  /\ failedBefore = FALSE /\ prevOk = FALSE

InitMain ==
  /\ FreshProcess /\ FreshRun
  /\ dirs = {} /\ files = [p \in Paths |-> Absent] /\ files0 = [p \in Paths |-> Absent]
  /\ runs = 0 /\ faults = 0

IdleMerge == P = <<>> /\ D = <<>> /\ merged = <<>> /\ merged2 = <<>> /\ mstage = "off"
IdleCanon == docA = Nil /\ docB = Nil /\ outA = Nil /\ outB = Nil /\ cstage = "off"

Init == InitMain /\ IdleMerge /\ IdleCanon

(***************************************************************************)
(* errgroup.Group: Go runs f and keeps the first non-nil error in g.err    *)
(* (errOnce); Wait returns g.err once every task is done.  Nothing ever    *)
(* clears g.err.                                                           *)
(***************************************************************************)
egGo(g, e) == IF e # "nil" /\ g = "nil" THEN e ELSE g

(***************************************************************************)
(* os.Stat, os.IsNotExist, os.Remove, ioutil.WriteFile.                    *)
(***************************************************************************)
osStat(fs, pth) == IF fs[pth] = Absent THEN "ENOENT" ELSE "nil"

IsNotExist(e) == e = "ENOENT"

osRemove(fs, pth) == [fs EXCEPT ![pth] = Absent]

(***************************************************************************)
(* writeFile: the disk and the error it may leave.  WriteFile opens the    *)
(* file with O_CREATE|O_TRUNC and writes; it fails before the open (the    *)
(* file is as it was) or after it (the file is cut short).                 *)
(***************************************************************************)
writeFile(fs, pth, payload) ==
  { [fs |-> [fs EXCEPT ![pth] = payload], e |-> "nil"] }
  \cup (IF faults < MaxFaults
        THEN { [fs |-> fs, e |-> "writing " \o pathBase(pth)],
               [fs |-> [fs EXCEPT ![pth] = Truncated], e |-> "writing " \o pathBase(pth)] }
        ELSE {})

Logged(t, op, pth) == fsLog \cup { [task |-> t, op |-> op, pth |-> pth] }

(***************************************************************************)
(* The Status gate of DumpInfo: the case of the switch that is taken.      *)
(***************************************************************************)
StatusGateNoSyncCheck(resp) ==
  IF resp.err # "nil" THEN "error fetching client status"
  ELSE IF resp.Network # chainID THEN "not configured chain"
  ELSE "ok"

StatusGate(resp) ==
  IF resp.err # "nil" THEN "error fetching client status"
  ELSE IF resp.Network # chainID THEN "not configured chain"
  ELSE IF resp.CatchingUp THEN "still catching up"
  ELSE "ok"

(***************************************************************************)
(* DumpInfo, up to the three eg.Go of the fetch phase.                     *)
(***************************************************************************)
StartRun ==
  /\ pc \in {"idle", "returned"}
  /\ runs < MaxRuns
  /\ runs' = runs + 1
  /\ files0' = files
  /\ ppc' = NoPersist /\ ps' = <<>>
  /\ rpcOut' = NoFetch /\ fret' = NoFetch /\ pret' = NoPersist /\ fsLog' = {}
  /\ writers' = NoWriters
  /\ failedBefore' = (failedBefore \/ (stage \in {"fetch", "persist"} /\ ret # "nil"))
  /\ prevOk' = IF pc = "idle" THEN prevOk ELSE ret = "nil"
  /\ UNCHANGED <<procVars, diskVars, faults, mergeVars, canonVars>>

DumpInfo_NoClient ==
  /\ StartRun
  /\ pc' = "returned" /\ ret' = "error creating tendermint client"
  /\ stat' = Nil /\ err' = "client" /\ stage' = "validate" /\ fpc' = NoFetch

DumpInfo_Status ==
  /\ StartRun
  /\ \E resp \in StatusResponses :
       /\ stat' = resp /\ err' = resp.err
       /\ IF StatusGate(resp) = "ok"
          THEN /\ pc' = "fetch" /\ stage' = "fetch" /\ ret' = "none"
               /\ fpc' = [t \in FetchTasks |-> "call"]
          ELSE /\ pc' = "returned" /\ stage' = "validate" /\ ret' = StatusGate(resp)
               /\ fpc' = NoFetch

(***************************************************************************)
(* The fetch tasks.  Each assigns its package-level variable and           *)
(* DumpInfo's err in one statement, and reads err in the next.  The three  *)
(* goroutines are not synchronized, so a task may read the value a         *)
(* sibling stored: every order of the stores and loads is a behaviour.     *)
(* A call that fails leaves nil in the task's variable.  Failures are      *)
(* injected while fewer than MaxFaults have been.                          *)
(***************************************************************************)
Called(t, e) ==
  /\ pc = "fetch" /\ fpc[t] = "call"
  /\ e # "nil" => faults < MaxFaults
  /\ err' = e
  /\ writers' = Assigns(t, {ResultVar(t), "err"})
  /\ faults' = IF e # "nil" THEN faults + 1 ELSE faults
  /\ rpcOut' = [rpcOut EXCEPT ![t] = IF e # "nil" THEN "failed" ELSE "ok"]
  /\ fpc' = [fpc EXCEPT ![t] = "check"]
  /\ UNCHANGED <<pc, stat, ppc, ps, ret, files0, fret, pret, fsLog, stage>>
  /\ UNCHANGED <<egErr, diskVars, runs, failedBefore, prevOk, mergeVars, canonVars>>

Genesis_Call ==
  /\ pc = "fetch"
  /\ \E r \in GenesisResponses \cup {Nil} :
         /\ Called("genesis", IF r = Nil THEN "rpc" ELSE "nil")
         /\ gen' = r
         /\ UNCHANGED <<commit, netInfo>>

Commit_Call ==
  /\ pc = "fetch"
  /\ \E r \in CommitResponses(stat.LatestBlockHeight) \cup {Nil} :
         /\ Called("commit", IF r = Nil THEN "rpc" ELSE "nil")
         /\ commit' = r
         /\ UNCHANGED <<gen, netInfo>>

NetInfo_Call ==
  /\ pc = "fetch"
  /\ \E r \in NetInfoResponses \cup {Nil} :
         /\ Called("net-info", IF r = Nil THEN "rpc" ELSE "nil")
         /\ netInfo' = r
         /\ UNCHANGED <<gen, commit>>

FetchLabel(t) == IF t = "genesis" THEN "genesis file" ELSE t

Fetch_Return(t) ==
  /\ pc = "fetch" /\ fpc[t] = "check"
  /\ LET e == IF err # "nil" THEN FetchLabel(t) ELSE "nil"
     IN  /\ fret' = [fret EXCEPT ![t] = e]
         /\ egErr' = egGo(egErr, e)
  /\ fpc' = [fpc EXCEPT ![t] = "done"]
  /\ UNCHANGED <<pc, stat, err, ppc, ps, ret, files0, rpcOut, pret, fsLog, stage>>
  /\ UNCHANGED <<gen, commit, netInfo, diskVars, runs, faults, failedBefore, prevOk, mergeVars, canonVars, writers>>

(***************************************************************************)
(* err = eg.Wait() of the fetch phase.                                     *)
(***************************************************************************)
egWait == egErr

Fetch_Wait ==
  /\ pc = "fetch" /\ \A t \in FetchTasks : fpc[t] = "done"
  /\ err' = egWait
  /\ IF egWait # "nil"
     THEN pc' = "returned" /\ ret' = "fetching: " \o egWait /\ stage' = stage
     ELSE pc' = "mkdir chain" /\ ret' = ret /\ stage' = "mkdir"
  /\ UNCHANGED <<stat, fpc, ppc, ps, files0, rpcOut, fret, pret, fsLog>>
  /\ UNCHANGED <<procVars, diskVars, runs, faults, failedBefore, prevOk, mergeVars, canonVars, writers>>


(***************************************************************************)
(* createDirIfNotExist, called for the chain directory and then for        *)
(* light-roots.  A failed Mkdir makes DumpInfo return its error.           *)
(***************************************************************************)
createDirIgnoringError(pth, from, to) ==
  /\ pc = from
  /\ \/ /\ pth \in dirs
        /\ pc' = to
        /\ UNCHANGED <<ret, dirs, faults, fsLog>>
     \/ /\ pth \notin dirs
        /\ dirs' = dirs \cup {pth}
        /\ fsLog' = Logged("DumpInfo", "mkdir", pth)
        /\ pc' = to
        /\ UNCHANGED <<ret, faults>>
     \/ /\ pth \notin dirs
        /\ faults < MaxFaults
        /\ faults' = faults + 1
        /\ fsLog' = Logged("DumpInfo", "mkdir", pth)
        /\ pc' = to
        /\ UNCHANGED <<ret, dirs>>
  /\ err' = IF pc' = "returned" THEN ret' ELSE "nil"
  /\ UNCHANGED <<stat, fpc, ppc, ps, files0, rpcOut, fret, pret, stage>>
  /\ UNCHANGED <<procVars, files, runs, failedBefore, prevOk, mergeVars, canonVars, writers>>

createDirIfNotExist(pth, from, to) ==
  /\ pc = from
  /\ \/ /\ pth \in dirs
        /\ pc' = to
        /\ UNCHANGED <<ret, dirs, faults, fsLog>>
     \/ /\ pth \notin dirs
        /\ dirs' = dirs \cup {pth}
        /\ fsLog' = Logged("DumpInfo", "mkdir", pth)
        /\ pc' = to
        /\ UNCHANGED <<ret, faults>>
     \/ /\ pth \notin dirs
        /\ faults < MaxFaults
        /\ faults' = faults + 1
        /\ fsLog' = Logged("DumpInfo", "mkdir", pth)
        /\ pc' = "returned" /\ ret' = "making dir " \o pathBase(pth)
        /\ UNCHANGED dirs
  /\ err' = IF pc' = "returned" THEN ret' ELSE "nil"
  /\ UNCHANGED <<stat, fpc, ppc, ps, files0, rpcOut, fret, pret, stage>>
  /\ UNCHANGED <<procVars, files, runs, failedBefore, prevOk, mergeVars, canonVars, writers>>

MkdirChain == createDirIfNotExist(chainPath, "mkdir chain", "mkdir light-roots")

MkdirLightRoots == createDirIfNotExist(lrpath, "mkdir light-roots", "spawn")

(***************************************************************************)
(* The five eg.Go of the persist phase.  Their arguments are evaluated     *)
(* first: commit.SignedHeader dereferences commit, and a nil commit        *)
(* panics.                                                                 *)
(***************************************************************************)
TargetSharedByTwo(t) ==
  IF t = "latest" THEN latestPath
  ELSE IF t = "height" THEN heightPath(commit.Height)
  ELSE binariesPath

TargetLatestAtHeight(t) ==
  IF t \in {"latest", "height"} THEN heightPath(commit.Height)
  ELSE IF t = "binaries" THEN binariesPath
  ELSE peersPath

Target(t) ==
  IF t = "latest" THEN latestPath
  ELSE IF t = "height" THEN heightPath(commit.Height)
  ELSE IF t = "binaries" THEN binariesPath
  ELSE peersPath

Payload(t) ==
  IF t \in {"latest", "height"} THEN NewLightRoot(commit)
  ELSE IF t = "binaries" THEN Binary
  ELSE PeersFile(ps)

Persist_Spawn ==
  /\ pc = "spawn"
  /\ IF commit = Nil
     THEN pc' = "crashed" /\ ret' = "panic" /\ ppc' = ppc
     ELSE /\ pc' = "persist" /\ ret' = ret
          /\ ppc' = [t \in PersistTasks |-> IF t \in UpdateTasks THEN "update" ELSE "stat"]
  /\ stage' = "persist" /\ writers' = NoWriters
  /\ UNCHANGED <<stat, err, fpc, ps, files0, rpcOut, fret, pret, fsLog>>
  /\ UNCHANGED <<procVars, diskVars, runs, faults, failedBefore, prevOk, mergeVars, canonVars>>

(***************************************************************************)
(* A persist task returns e: errgroup keeps the first error.               *)
(***************************************************************************)
Returns(t, e) ==
  /\ pret' = [pret EXCEPT ![t] = e]
  /\ egErr' = egGo(egErr, e)
  /\ ppc' = [ppc EXCEPT ![t] = "done"]

Continues(t, to) ==
  /\ ppc' = [ppc EXCEPT ![t] = to]
  /\ UNCHANGED <<pret, egErr>>

Written(t, w, to) ==
  /\ files' = w.fs
  /\ faults' = IF w.e # "nil" THEN faults + 1 ELSE faults
  /\ IF w.e # "nil" \/ to = "done" THEN Returns(t, w.e) ELSE Continues(t, to)

(***************************************************************************)
(* updateFile: os.Remove, its result ignored, then writeFile.  Run by the  *)
(* latest, height and binaries tasks, and by the peers task when it        *)
(* merges.  The two calls are one step of the task: no other task of the   *)
(* run reads or writes pth, so no task can tell them apart.  When the      *)
(* write fails before the open, the file stays removed.                    *)
(***************************************************************************)
updateFileKeepExisting(fs, pth, payload) ==
  IF fs[pth] # Absent THEN { [fs |-> fs, e |-> "nil"] } ELSE writeFile(fs, pth, payload)

updateFile(fs, pth, payload) ==
  writeFile(osRemove(fs, pth), pth, payload)

updateFile_Task(t) ==
  /\ pc = "persist" /\ ppc[t] = "update"
  /\ \E w \in updateFile(files, Target(t), Payload(t)) : Written(t, w, "done")
  /\ fsLog' = fsLog \cup { [task |-> t, op |-> op, pth |-> Target(t)] : op \in {"remove", "write"} }
  /\ UNCHANGED <<pc, stat, err, fpc, ps, ret, files0, rpcOut, fret, stage>>
  /\ UNCHANGED <<gen, commit, netInfo, dirs, runs, failedBefore, prevOk, mergeVars, canonVars, writers>>

(***************************************************************************)
(* The genesis task.  os.Stat assigns DumpInfo's err; os.IsNotExist reads  *)
(* it afterwards.  gen.Genesis dereferences gen.                           *)
(***************************************************************************)
Genesis_Stat ==
  /\ pc = "persist" /\ ppc["genesis"] = "stat"
  /\ err' = osStat(files, genesisPath)
  /\ writers' = Assigns("genesis", {"err"})
  /\ Continues("genesis", "check")
  /\ UNCHANGED <<pc, stat, fpc, ps, ret, files0, rpcOut, fret, fsLog, stage>>
  /\ UNCHANGED <<gen, commit, netInfo, diskVars, runs, faults, failedBefore, prevOk, mergeVars, canonVars>>

Genesis_Check ==
  /\ pc = "persist" /\ ppc["genesis"] = "check"
  /\ IF ~IsNotExist(err)
     THEN Returns("genesis", "nil") /\ UNCHANGED <<pc, ret>>
     ELSE IF gen = Nil
     THEN pc' = "crashed" /\ ret' = "panic" /\ UNCHANGED <<ppc, pret, egErr>>
     ELSE Continues("genesis", "write sum") /\ UNCHANGED <<pc, ret>>
  /\ UNCHANGED <<stat, err, fpc, ps, files0, rpcOut, fret, fsLog, stage>>
  /\ UNCHANGED <<gen, commit, netInfo, diskVars, runs, faults, failedBefore, prevOk, mergeVars, canonVars, writers>>

Genesis_WriteSum ==
  /\ pc = "persist" /\ ppc["genesis"] = "write sum"
  /\ \E w \in writeFile(files, genesisSumPath, SumFile(sortedGenesis(gen.Genesis).sum)) :
       Written("genesis", w, "write genesis")
  /\ fsLog' = Logged("genesis", "write", genesisSumPath)
  /\ UNCHANGED <<pc, stat, err, fpc, ps, ret, files0, rpcOut, fret, stage>>
  /\ UNCHANGED <<gen, commit, netInfo, dirs, runs, failedBefore, prevOk, mergeVars, canonVars, writers>>

Genesis_Write ==
  /\ pc = "persist" /\ ppc["genesis"] = "write genesis"
  /\ \E w \in writeFile(files, genesisPath, GenesisFile(sortedGenesis(gen.Genesis).indented)) :
       Written("genesis", w, "done")
  /\ fsLog' = Logged("genesis", "write", genesisPath)
  /\ UNCHANGED <<pc, stat, err, fpc, ps, ret, files0, rpcOut, fret, stage>>
  /\ UNCHANGED <<gen, commit, netInfo, dirs, runs, failedBefore, prevOk, mergeVars, canonVars, writers>>

(***************************************************************************)
(* The peers task.  netInfo.Peers dereferences netInfo.  With no peers     *)
(* file (as err says when it is read) the discovered peers are written as  *)
(* they are; otherwise the file is opened, read and parsed, and the        *)
(* de-duplicated concatenation replaces it.                                *)
(***************************************************************************)
Peers_Stat ==
  /\ pc = "persist" /\ ppc["peers"] = "stat"
  /\ IF netInfo = Nil
     THEN pc' = "crashed" /\ ret' = "panic" /\ UNCHANGED <<err, ppc, pret, egErr, writers>>
     ELSE /\ err' = osStat(files, peersPath)
          /\ writers' = Assigns("peers", {"err"})
          /\ Continues("peers", "check")
          /\ UNCHANGED <<pc, ret>>
  /\ UNCHANGED <<stat, fpc, ps, files0, rpcOut, fret, fsLog, stage>>
  /\ UNCHANGED <<gen, commit, netInfo, diskVars, runs, faults, failedBefore, prevOk, mergeVars, canonVars>>

Peers_Check ==
  /\ pc = "persist" /\ ppc["peers"] = "check"
  /\ LET qp == stringsFromPeers(netInfo.Peers)
         pfb == files[peersPath]
     IN  IF IsNotExist(err)
         THEN ps' = qp /\ Continues("peers", "write")
         ELSE IF pfb = Absent
         THEN Returns("peers", "opening peer file") /\ ps' = ps
         ELSE IF pfb.kind # "peers"
         THEN Returns("peers", "unmarshaling peer strings") /\ ps' = ps
         ELSE /\ ps' \in dedupe(pfb.list \o qp)
              /\ Continues("peers", "update")
  /\ UNCHANGED <<pc, stat, err, fpc, ret, files0, rpcOut, fret, fsLog, stage>>
  /\ UNCHANGED <<gen, commit, netInfo, diskVars, runs, faults, failedBefore, prevOk, mergeVars, canonVars, writers>>

(***************************************************************************)
(* The count of the "added %d new peers" log line, len(ps)-len(fp): taken  *)
(* after the merge and before updateFile replaces the file, so fp is the   *)
(* list still in peers.json.                                               *)
(***************************************************************************)
addedCount == Len(ps) - Len(files[peersPath].list)

Peers_WriteNew ==
  /\ pc = "persist" /\ ppc["peers"] = "write"
  /\ \E w \in writeFile(files, peersPath, PeersFile(ps)) : Written("peers", w, "done")
  /\ fsLog' = Logged("peers", "write", peersPath)
  /\ UNCHANGED <<pc, stat, err, fpc, ps, ret, files0, rpcOut, fret, stage>>
  /\ UNCHANGED <<gen, commit, netInfo, dirs, runs, failedBefore, prevOk, mergeVars, canonVars, writers>>

(***************************************************************************)
(* err = eg.Wait() of the persist phase, and the return.                   *)
(***************************************************************************)
Persist_WaitFailFast ==
  /\ pc = "persist" /\ (egErr # "nil" \/ \A t \in PersistTasks : ppc[t] = "done")
  /\ err' = egWait
  /\ pc' = "returned" /\ ret' = egWait
  /\ stage' = IF egWait # "nil" THEN stage ELSE "done"
  /\ UNCHANGED <<stat, fpc, ppc, ps, files0, rpcOut, fret, pret, fsLog>>
  /\ UNCHANGED <<procVars, diskVars, runs, faults, failedBefore, prevOk, mergeVars, canonVars, writers>>

Persist_Wait ==
  /\ pc = "persist" /\ \A t \in PersistTasks : ppc[t] = "done"
  /\ err' = egWait
  /\ pc' = "returned" /\ ret' = egWait
  /\ stage' = IF egWait # "nil" THEN stage ELSE "done"
  /\ UNCHANGED <<stat, fpc, ppc, ps, files0, rpcOut, fret, pret, fsLog>>
  /\ UNCHANGED <<procVars, diskVars, runs, faults, failedBefore, prevOk, mergeVars, canonVars, writers>>

(***************************************************************************)
(* The process ends, after a return or a panic, and a new one starts: the  *)
(* package-level variables are as declared, the disk is as it was left.    *)
(***************************************************************************)
ProcessRestart ==
  /\ pc \in {"returned", "crashed"}
  /\ runs < MaxRuns
  /\ gen' = Nil /\ commit' = Nil /\ netInfo' = Nil /\ egErr' = "nil"
  /\ failedBefore' = FALSE /\ prevOk' = (ret = "nil")
  /\ pc' = "idle" /\ stat' = Nil /\ err' = "nil"
  /\ fpc' = NoFetch /\ ppc' = NoPersist /\ ps' = <<>> /\ ret' = "none"
  /\ rpcOut' = NoFetch /\ fret' = NoFetch /\ pret' = NoPersist
  /\ fsLog' = {} /\ stage' = "idle" /\ writers' = NoWriters
  /\ files0' = files
  /\ UNCHANGED <<diskVars, runs, faults, mergeVars, canonVars>>

Next ==
  \/ DumpInfo_NoClient
  \/ DumpInfo_Status
  \/ Genesis_Call
  \/ Commit_Call
  \/ NetInfo_Call
  \/ \E t \in FetchTasks : Fetch_Return(t)
  \/ Fetch_Wait
  \/ MkdirChain
  \/ MkdirLightRoots
  \/ Persist_Spawn
  \/ \E t \in UpdateTasks \cup {"peers"} : updateFile_Task(t)
  \/ Genesis_Stat
  \/ Genesis_Check
  \/ Genesis_WriteSum
  \/ Genesis_Write
  \/ Peers_Stat
  \/ Peers_Check
  \/ Peers_WriteNew
  \/ Persist_Wait
  \/ ProcessRestart

Spec == Init /\ [][Next]_vars


(***************************************************************************)
(* The peer merge alone: ps := dedupe(append(fp, qp...)), applied to a     *)
(* prior list P and a discovered list D, and then to its own result and D. *)
(***************************************************************************)
PeerStrings == { PeerString(p) : p \in {peerA, peerA2, peerB, peerC} }

InitMerge ==
  /\ InitMain /\ IdleCanon
  /\ P \in SeqsUpTo(PeerStrings, MaxLen)
  /\ D \in SeqsUpTo(PeerStrings, MaxLen)
  /\ merged = <<>> /\ merged2 = <<>> /\ mstage = "input"

Merge_Once ==
  /\ mstage = "input"
  /\ merged' \in dedupe(P \o D)
  /\ mstage' = "once"
  /\ UNCHANGED <<P, D, merged2>>
  /\ UNCHANGED <<procVars, diskVars, runVars, runs, faults, failedBefore, prevOk, canonVars>>

Merge_Twice ==
  /\ mstage = "once"
  /\ merged2' \in dedupe(merged \o D)
  /\ mstage' = "twice"
  /\ UNCHANGED <<P, D, merged>>
  /\ UNCHANGED <<procVars, diskVars, runVars, runs, faults, failedBefore, prevOk, canonVars>>

NextMerge == Merge_Once \/ Merge_Twice

SpecMerge == InitMerge /\ [][NextMerge]_vars

(***************************************************************************)
(* sortedGenesis alone, applied to two genesis documents.  The top-level   *)
(* members come from the fields of GenesisDoc, in their order; app_state   *)
(* is raw JSON and holds its members in whatever order the node sent them. *)
(***************************************************************************)
AppStateMembers ==
  { Member(k, Scalar(v)) : k \in {"accounts", "supply"}, v \in {"1", "2"} }

GenesisDocs ==
  { Object(<<Member("chain_id", Scalar("chain-A")), Member("app_state", Object(m))>>) :
      m \in SeqsUpTo(AppStateMembers, MaxLen) }

InitCanon ==
  /\ InitMain /\ IdleMerge
  /\ docA \in GenesisDocs /\ docB \in GenesisDocs
  /\ outA = Nil /\ outB = Nil /\ cstage = "input"

Canonicalize ==
  /\ cstage = "input"
  /\ outA' = sortedGenesis(docA)
  /\ outB' = sortedGenesis(docB)
  /\ cstage' = "done"
  /\ UNCHANGED <<docA, docB>>
  /\ UNCHANGED <<procVars, diskVars, runVars, runs, faults, failedBefore, prevOk, mergeVars>>

NextCanon == Canonicalize

SpecCanon == InitCanon /\ [][NextCanon]_vars


(***************************************************************************)
(* Properties.                                                             *)
(***************************************************************************)
Returned == pc = "returned"

BadStatus ==
  /\ stat # Nil
  /\ \/ stat.err # "nil"
     \/ stat.Network # chainID
     \/ stat.CatchingUp

RpcFailed == { t \in FetchTasks : rpcOut[t] = "failed" }

FetchError(t) == "fetching: " \o FetchLabel(t)

(***************************************************************************)
(* C1.  Validation gate: when the Status call fails, or reports another    *)
(* network than chainID, or reports that the node is catching up, the run  *)
(* has returned an error, none of Genesis, Commit and NetInfo has been     *)
(* called in it, and it has made no filesystem call: the disk is as it was *)
(* when the run started.                                                   *)
(***************************************************************************)
C1_ValidationGate ==
  BadStatus =>
    /\ Returned /\ ret \notin {"nil", "none"}
    /\ rpcOut = NoFetch /\ fpc = NoFetch
    /\ fsLog = {} /\ files = files0

C1_Witness ==
  /\ Returned /\ runs = 2
  /\ stat # Nil /\ stat.err = "nil" /\ stat.Network = chainID /\ stat.CatchingUp
  /\ files[genesisPath] # Absent

(***************************************************************************)
(* C2.  Fan-out fail-fast: once one of Genesis, Commit and NetInfo has     *)
(* failed in a run, the run makes no filesystem call, and when the fetch   *)
(* phase is over DumpInfo has returned a fetch error.                      *)
(***************************************************************************)
C2_FanOutFailFast ==
  RpcFailed # {} =>
    /\ fsLog = {} /\ files = files0
    /\ pc # "fetch" => (Returned /\ ret \in { FetchError(t) : t \in FetchTasks })

(***************************************************************************)
(* C3.  Fetch error attribution: a fetch task returns an error exactly     *)
(* when its own RPC call failed, and the error DumpInfo returns from the   *)
(* fetch phase names a task whose RPC call failed in this run.             *)
(***************************************************************************)
C3_FetchErrorAttribution ==
  /\ \A t \in FetchTasks :
       fret[t] # "none" => (fret[t] # "nil" <=> rpcOut[t] = "failed")
  /\ (Returned /\ stage = "fetch") =>
       \E t \in RpcFailed : ret = FetchError(t)

(***************************************************************************)
(* C4.  Write-once genesis: when genesis.json exists at the start of a     *)
(* run, genesis.json and genesis.json.sum hold at the end of the run what  *)
(* they held at its start.                                                 *)
(***************************************************************************)
C4_WriteOnceGenesis ==
  (Returned /\ files0[genesisPath] # Absent) =>
    /\ files[genesisPath] = files0[genesisPath]
    /\ files[genesisSumPath] = files0[genesisSumPath]

(***************************************************************************)
(* C5.  Monotonic peer merge: when peers.json held the list P at the start *)
(* of a run and the peers task returned nil, peers.json holds at the end   *)
(* of the run a list whose elements are those of P and those discovered.   *)
(***************************************************************************)
C5_MonotonicPeerMerge ==
  (Returned /\ pret["peers"] = "nil" /\ files0[peersPath].kind = "peers") =>
    /\ files[peersPath].kind = "peers"
    /\ Range(files[peersPath].list) =
         Range(files0[peersPath].list) \cup Range(stringsFromPeers(netInfo.Peers))

(***************************************************************************)
(* C6.  Peer merge idempotence: merging D into P and merging D again into  *)
(* the result gives the peers of merging once.                             *)
(***************************************************************************)
C6_MergeIdempotent ==
  mstage = "twice" => Range(merged2) = Range(merged)

C6_Witness ==
  /\ mstage = "twice"
  /\ Len(P) = 2 /\ P[1] # P[2]
  /\ Range(D) \cap Range(P) # {} /\ ~(Range(D) \subseteq Range(P))
  /\ Len(merged2) = 3

(***************************************************************************)
(* C7.  Peer uniqueness: peers.json never holds the same peer string       *)
(* twice.                                                                  *)
(***************************************************************************)
C7_PeerUniqueness ==
  files[peersPath].kind = "peers" => NoDuplicates(files[peersPath].list)

(***************************************************************************)
(* C8.  Canonicalization determinism: two genesis documents with the same  *)
(* keys and values at every level get the same bytes and the same          *)
(* checksum from sortedGenesis, whatever the order of their keys; the      *)
(* keys of the bytes are in sorted order at every level; and equal bytes   *)
(* have equal checksums.                                                   *)
(***************************************************************************)
KeysInOrder(bytes) ==
  \A i, j \in 1..Len(bytes) :
    /\ i < j
    /\ \/ {bytes[i], bytes[j]} \subseteq {"chain_id", "app_state"}
       \/ {bytes[i], bytes[j]} \subseteq {"accounts", "supply"}
    => KeyRank(bytes[i]) < KeyRank(bytes[j])

SameStructure(a, b) == Unmarshal(a) = Unmarshal(b)

C8_CanonicalDeterminism ==
  cstage = "done" =>
    /\ SameStructure(docA, docB) => outA = outB
    /\ KeysInOrder(outA.indented) /\ KeysInOrder(outB.indented)
    /\ outA.indented = outB.indented => outA.sum = outB.sum

C8_Witness ==
  /\ cstage = "done"
  /\ SameStructure(docA, docB)
  /\ Marshal(docA) # Marshal(docB)
  /\ Len(docA.members[2].val.members) = 2
  /\ outA.indented # Marshal(docA)

(***************************************************************************)
(* C9.  Re-invocation is the retry mechanism: a run that follows, in the   *)
(* same process, a run that failed in its fetch or persist phase, and in   *)
(* which the Status gate passes, the three fetches succeed and no          *)
(* filesystem call fails, returns nil.                                     *)
(***************************************************************************)
FsAllOk ==
  /\ \A t \in PersistTasks : pret[t] \in {"none", "nil"}
  /\ stage # "mkdir"

C9_ReinvocationRetries ==
  (Returned /\ failedBefore /\ stat # Nil /\ ~BadStatus
     /\ (\A t \in FetchTasks : rpcOut[t] = "ok") /\ FsAllOk)
    => ret = "nil"

(***************************************************************************)
(* C10.  Height-indexed light-root overwrite: when a run returns nil,      *)
(* light-roots/<h>.json for the height h of its commit holds the hash of   *)
(* its commit, whatever the file held before.                              *)
(***************************************************************************)
C10_LightRootOverwritten ==
  (Returned /\ ret = "nil") =>
    /\ files[heightPath(commit.Height)].kind = "LightRoot"
    /\ files[heightPath(commit.Height)].TrustHeight = commit.Height
    /\ files[heightPath(commit.Height)].TrustHash = commit.Hash

C10_Witness ==
  /\ Returned /\ ret = "nil" /\ prevOk
  /\ files0[heightPath(commit.Height)].kind = "LightRoot"
  /\ files0[heightPath(commit.Height)].TrustHash # commit.Hash
  /\ files[heightPath(commit.Height)].TrustHash = commit.Hash

C12_SingleWriterPerPhase ==
  \A v \in SharedVars : Cardinality(writers[v]) <= 1

(***************************************************************************)
(* The removals and writes of files the run has made so far.               *)
(***************************************************************************)
FileOps == { a \in fsLog : a.op \in {"remove", "write"} }

(***************************************************************************)
(* C13.  Directory preparation precedes writes: a file is removed or       *)
(* written, and a persist task is started, only after both                 *)
(* createDirIfNotExist calls of the run have returned without error, so    *)
(* with both directories in place; a run in which one of them fails        *)
(* returns that error having started no persist task and touched no file.  *)
(***************************************************************************)
C13_DirectoriesBeforeWrites ==
  /\ (FileOps # {} \/ ppc # NoPersist) =>
       /\ stage \in {"persist", "done"}
       /\ chainPath \in dirs /\ lrpath \in dirs
  /\ (Returned /\ stage = "mkdir") =>
       /\ ret \in {"making dir " \o pathBase(chainPath), "making dir " \o pathBase(lrpath)}
       /\ ppc = NoPersist /\ FileOps = {} /\ files = files0

C13_Witness ==
  /\ Returned /\ stage = "mkdir"
  /\ ret = "making dir " \o pathBase(lrpath)
  /\ chainPath \in dirs /\ lrpath \notin dirs
  /\ [task |-> "DumpInfo", op |-> "mkdir", pth |-> lrpath] \in fsLog

(***************************************************************************)
(* The stage of the orchestrator, read off DumpInfo's position: Persisted  *)
(* is passed within the step that returns nil.  A panic is none of the     *)
(* stages.                                                                 *)
(***************************************************************************)
StageOf ==
  IF pc = "idle" THEN "Idle"
  ELSE IF pc = "fetch" THEN "Validated"
  ELSE IF pc \in {"mkdir chain", "mkdir light-roots"} THEN "Fetched"
  ELSE IF pc \in {"spawn", "persist"} THEN "DirectoriesReady"
  ELSE IF pc = "returned" THEN (IF ret = "nil" THEN "Done" ELSE "Failed")
  ELSE "Panicked"

AllSucceeded ==
  /\ stat # Nil /\ ~BadStatus
  /\ \A t \in FetchTasks : rpcOut[t] = "ok"
  /\ chainPath \in dirs /\ lrpath \in dirs
  /\ \A t \in PersistTasks : pret[t] = "nil"

StageStep ==
  IF runs' # runs
  THEN StageOf \in {"Idle", "Done", "Failed"} /\ StageOf' \in {"Validated", "Failed"}
  ELSE IF pc' = "idle"
  THEN TRUE
  ELSE /\ \/ StageOf' = StageOf
          \/ <<StageOf, StageOf'>> \in { <<"Validated", "Fetched">>,
                                        <<"Fetched", "DirectoriesReady">>,
                                        <<"DirectoriesReady", "Done">> }
          \/ StageOf \in {"Validated", "Fetched", "DirectoriesReady"} /\ StageOf' = "Failed"

DoneStep == (StageOf' = "Done" /\ (StageOf # "Done" \/ runs' # runs)) => AllSucceeded'

(***************************************************************************)
(* C14.  Orchestrator stage order: a run moves through Idle, Validated,    *)
(* Fetched, DirectoriesReady, Persisted, Done in this order only, or from  *)
(* a stage that is not terminal to Failed; it enters no stage twice and    *)
(* leaves Done and Failed only by a new run; and it reaches Done only when *)
(* validation, all three fetches, both directory preparations and all      *)
(* persist tasks have succeeded.                                           *)
(***************************************************************************)
C14_StageOrder == [][StageStep /\ DoneStep]_vars

(***************************************************************************)
(* C15.  Wait-for-all barrier: DumpInfo returns from the fetch phase or    *)
(* the persist phase only when every task started in that phase has        *)
(* finished, also when one of them failed; no sibling is cancelled and     *)
(* nothing is rolled back: when the persist phase fails, DumpInfo returns  *)
(* the error of a failed task, and the file of every sibling that          *)
(* returned nil after writing is on disk as written.                       *)
(***************************************************************************)
C15_WaitForAll ==
  /\ (Returned /\ stage = "fetch") => \A t \in FetchTasks : fpc[t] = "done"
  /\ (Returned /\ stage \in {"persist", "done"}) =>
       /\ \A t \in PersistTasks : ppc[t] = "done"
       /\ (ret = "nil") <=> (\A t \in PersistTasks : pret[t] = "nil")
       /\ ret # "nil" => \E t \in PersistTasks : pret[t] = ret
       /\ \A t \in UpdateTasks : pret[t] = "nil" => files[Target(t)] = Payload(t)
       /\ \A a \in FileOps :
            (a.task = "peers" /\ pret["peers"] = "nil") => files[peersPath] = PeersFile(ps)
       /\ \A a \in FileOps :
            (a.task = "genesis" /\ pret["genesis"] = "nil") =>
               /\ files[genesisSumPath] = SumFile(sortedGenesis(gen.Genesis).sum)
               /\ a.pth = genesisPath =>
                    files[genesisPath] = GenesisFile(sortedGenesis(gen.Genesis).indented)

C15_Witness ==
  /\ Returned /\ stage = "persist"
  /\ pret["latest"] # "nil" /\ ret = pret["latest"]
  /\ \A t \in PersistTasks \ {"latest"} : ppc[t] = "done" /\ pret[t] = "nil"
  /\ files0[binariesPath] = Absent /\ files[binariesPath] = Binary
  /\ files[peersPath] = PeersFile(ps)
  /\ files[latestPath] # NewLightRoot(commit)

(***************************************************************************)
(* The paths each persist task is meant to touch.                          *)
(***************************************************************************)
Owned(t) ==
  IF t = "latest" THEN {latestPath}
  ELSE IF t = "height" THEN { heightPath(h) : h \in Heights }
  ELSE IF t = "binaries" THEN {binariesPath}
  ELSE IF t = "genesis" THEN {genesisPath, genesisSumPath}
  ELSE {peersPath}

(***************************************************************************)
(* C16.  Disjoint write targets: within a run no path is removed or        *)
(* written by two tasks; latest.json, <h>.json, binaries.json, the pair    *)
(* genesis.json and genesis.json.sum, and peers.json are each touched by   *)
(* one task only, its own.                                                 *)
(***************************************************************************)
C16_DisjointWriteTargets ==
  /\ \A a, b \in FileOps : a.pth = b.pth => a.task = b.task
  /\ \A a \in FileOps : a.task \in PersistTasks /\ a.pth \in Owned(a.task)
  /\ \A t, u \in PersistTasks : t # u => Owned(t) \cap Owned(u) = {}

C16_Witness ==
  /\ Returned /\ ret = "nil"
  /\ { a.task : a \in FileOps } = PersistTasks
  /\ { a.pth : a \in FileOps } =
       {latestPath, heightPath(commit.Height), binariesPath, genesisPath, genesisSumPath, peersPath}

(***************************************************************************)
(* C17.  Newly-added count: when the peers task has merged the discovered  *)
(* peers into a prior peers.json, the count it reports, |merged| - |prior|,*)
(* is the number of distinct discovered peers that the prior file did not  *)
(* hold, and is never negative.                                            *)
(***************************************************************************)
C17_NewlyAddedCount ==
  ppc["peers"] = "update" =>
    /\ addedCount = Cardinality(Range(stringsFromPeers(netInfo.Peers)) \ Range(files[peersPath].list))
    /\ addedCount >= 0

(***************************************************************************)
(* The steps of a run in progress: every action but the start of a run     *)
(* and the restart of the process.                                         *)
(***************************************************************************)
RunStep ==
  \/ Genesis_Call \/ Commit_Call \/ NetInfo_Call
  \/ \E t \in FetchTasks : Fetch_Return(t)
  \/ Fetch_Wait \/ MkdirChain \/ MkdirLightRoots \/ Persist_Spawn
  \/ \E t \in UpdateTasks \cup {"peers"} : updateFile_Task(t)
  \/ Genesis_Stat \/ Genesis_Check \/ Genesis_WriteSum \/ Genesis_Write
  \/ Peers_Stat \/ Peers_Check \/ Peers_WriteNew
  \/ Persist_Wait

(***************************************************************************)
(* C18.  Termination: a run ends only by DumpInfo returning, nil or an     *)
(* error: it never ends by a panic on a fetch result that was not          *)
(* populated, and while it has not returned some step of it can be taken.  *)
(***************************************************************************)
C18_EndsOnlyByReturning ==
  /\ pc # "crashed"
  /\ pc \notin {"idle", "returned"} => ENABLED RunStep

(***************************************************************************)
(* The artifacts of a snapshot at the height of the fetched commit.        *)
(***************************************************************************)
Artifacts ==
  {genesisPath, genesisSumPath, binariesPath, peersPath, latestPath, heightPath(commit.Height)}

(***************************************************************************)
(* C19.  Complete snapshot on success: when DumpInfo has returned nil,     *)
(* genesis.json, genesis.json.sum, binaries.json, peers.json,              *)
(* light-roots/latest.json and light-roots/<h>.json for the fetched height *)
(* h all exist.                                                            *)
(***************************************************************************)
C19_CompleteSnapshot ==
  (Returned /\ ret = "nil") => \A p \in Artifacts : files[p] # Absent

(***************************************************************************)
(* The bytes in a file: those written, or none of them when the write was  *)
(* cut short.                                                              *)
(***************************************************************************)
FileBytes(f) == IF f.kind = "genesis" THEN f.bytes ELSE <<>>

(***************************************************************************)
(* C20.  Genesis/checksum consistency: from an empty registry and after    *)
(* any sequence of runs, whenever genesis.json exists, genesis.json.sum    *)
(* exists too and holds the hex SHA-256 of the bytes now in genesis.json.  *)
(***************************************************************************)
C20_GenesisMatchesSum ==
  (pc \in {"idle", "returned", "crashed"} /\ files[genesisPath] # Absent) =>
    files[genesisSumPath] = SumFile(Sum256(FileBytes(files[genesisPath])))

=============================================================================
